---- MODULE Spec2Model ----
(***************************************************************************)
(* Doctor availability pipeline of doutor-agenda: the upsert-doctor server *)
(* action, the delete-doctor server action, the doctor form that feeds the *)
(* upsert action, and the doctors / appointments tables they act on.       *)
(*                                                                         *)
(* Strings that the code inspects character by character (time-of-day      *)
(* strings, names) are sequences of UTF-16 code units, so that split,      *)
(* parseInt, trim, "<" and format are computed, not assumed.               *)
(***************************************************************************)
EXTENDS Integers, Sequences, FiniteSets, TLC

\* ------------------------------------------------------------------
\* Bounds of the model
\* ------------------------------------------------------------------

\* The clocks run over 0..MaxTime.
MaxTime == 1

\* The server takes up MaxRequests requests.
MaxRequests == 3

\* ------------------------------------------------------------------
\* Strings
\* ------------------------------------------------------------------

\* A string is the sequence of its UTF-16 code units: "0".."9" are 48..57,
\* ":" is 58, " " is 32.
IsDigit(c) == c \in 48..57

DigitChar(n) == 48 + n

Colon == <<58>>

\* JavaScript's a < b on strings: lexicographic on code units, a proper
\* prefix being smaller.
RECURSIVE StrLess(_, _)
StrLess(a, b) ==
  IF b = <<>> THEN FALSE
  ELSE IF a = <<>> THEN TRUE
  ELSE IF Head(a) < Head(b) THEN TRUE
  ELSE IF Head(a) > Head(b) THEN FALSE
  ELSE StrLess(Tail(a), Tail(b))

\* String.prototype.split(":"): the segments between colons.
RECURSIVE SplitColon(_)
SplitColon(s) ==
  IF \A k \in 1..Len(s) : <<s[k]>> # Colon THEN <<s>>
  ELSE LET p == CHOOSE k \in 1..Len(s) :
                  <<s[k]>> = Colon /\ \A j \in 1..(k - 1) : <<s[j]>> # Colon
       IN  <<SubSeq(s, 1, p - 1)>> \o SplitColon(SubSeq(s, p + 1, Len(s)))

\* WhiteSpace and LineTerminator of ECMAScript, which trim and parseInt
\* skip: tab, line feed, vertical tab, form feed, carriage return, space,
\* no-break space, ogham space, en quad .. hair space, line and paragraph
\* separators, narrow no-break space, medium mathematical space,
\* ideographic space, byte order mark.
IsWhiteSpace(c) ==
  c \in {9, 10, 11, 12, 13, 32, 160, 5760, 8232, 8233, 8239, 8287, 12288, 65279}
        \cup (8192..8202)

\* String.prototype.trimStart, trimEnd and trim.
RECURSIVE TrimLeft(_)
TrimLeft(s) ==
  IF s # <<>> /\ IsWhiteSpace(Head(s)) THEN TrimLeft(Tail(s)) ELSE s

RECURSIVE TrimRight(_)
TrimRight(s) ==
  IF s # <<>> /\ IsWhiteSpace(s[Len(s)])
    THEN TrimRight(SubSeq(s, 1, Len(s) - 1))
    ELSE s

Trim(s) == TrimRight(TrimLeft(s))

\* The value of c as a digit of the radix, or -1: 0-9, a-z and A-Z.
RadixDigit(c, radix) ==
  LET v == IF c \in 48..57 THEN c - 48
           ELSE IF c \in 97..122 THEN c - 87
           ELSE IF c \in 65..90 THEN c - 55
           ELSE 0 - 1
  IN  IF v < radix THEN v ELSE 0 - 1

\* The longest prefix of s made of digits of the radix.
RECURSIVE DigitPrefix(_, _)
DigitPrefix(s, radix) ==
  IF s = <<>> \/ RadixDigit(Head(s), radix) < 0 THEN <<>>
  ELSE <<Head(s)>> \o DigitPrefix(Tail(s), radix)

RECURSIVE DigitsValue(_, _)
DigitsValue(ds, radix) ==
  IF ds = <<>> THEN 0
  ELSE radix * DigitsValue(SubSeq(ds, 1, Len(ds) - 1), radix)
       + RadixDigit(ds[Len(ds)], radix)

\* A JavaScript number as parseInt returns it: NaN, or an integer.
NaN == [nan |-> TRUE, val |-> 0]

Num(n) == [nan |-> FALSE, val |-> n]

\* parseInt(s) without a radix: leading white space is skipped, a sign is
\* read, a 0x or 0X prefix selects radix 16, and the longest run of digits
\* that follows is the value; NaN when there is no digit. -0 counts as 0.
ParseInt(s) ==
  LET t == TrimLeft(s)
      signed == t # <<>> /\ Head(t) \in {43, 45}
      sign == IF t # <<>> /\ Head(t) = 45 THEN 0 - 1 ELSE 1
      u == IF signed THEN Tail(t) ELSE t
      hex == Len(u) >= 2 /\ u[1] = 48 /\ u[2] \in {88, 120}
      radix == IF hex THEN 16 ELSE 10
      digits == DigitPrefix(IF hex THEN SubSeq(u, 3, Len(u)) ELSE u, radix)
  IN  IF digits = <<>> THEN NaN ELSE Num(sign * DigitsValue(digits, radix))

\* parseInt(segments[k]): segments[k] is undefined past the last segment,
\* and parseInt(undefined) is NaN.
ParseIntAt(segments, k) ==
  IF k > Len(segments) THEN NaN ELSE ParseInt(segments[k])

\* Number.prototype.toString of an integer: its decimal digits, with a
\* minus sign when it is negative.
RECURSIVE NaturalDigits(_)
NaturalDigits(n) ==
  IF n < 10 THEN <<DigitChar(n)>>
  ELSE NaturalDigits(n \div 10) \o <<DigitChar(n % 10)>>

IntToString(n) ==
  IF n < 0 THEN <<45>> \o NaturalDigits(0 - n) ELSE NaturalDigits(n)

\* padStart(2, "0") of the decimal digits of n >= 0, as format's HH, mm, ss.
Pad2(n) == IF n < 10 THEN <<48>> \o NaturalDigits(n) ELSE NaturalDigits(n)

\* "Invalid Date"
InvalidDateString == <<73, 110, 118, 97, 108, 105, 100, 32, 68, 97, 116, 101>>

\* ------------------------------------------------------------------
\* The calendar and the time zone of the server process
\* ------------------------------------------------------------------

SecondsPerDay == 24 * 60 * 60

\* A point in time, or a wall-clock reading: the day counted from
\* 1970-01-01 and the second of that day. sec may be given out of range
\* and carries into the day.
Instant(day, sec) ==
  [day |-> day + (sec \div SecondsPerDay), sec |-> sec % SecondsPerDay]

Plus(i, seconds) == Instant(i.day, i.sec + seconds)

\* The day on which the date year-month-dayOfMonth of the Gregorian
\* calendar falls.
DaysFromCivil(year, month, dayOfMonth) ==
  LET y == IF month <= 2 THEN year - 1 ELSE year
      era == y \div 400
      yoe == y - era * 400
      doy == (153 * (IF month > 2 THEN month - 3 ELSE month + 9) + 2) \div 5
               + dayOfMonth - 1
      doe == yoe * 365 + (yoe \div 4) - (yoe \div 100) + doy
  IN  era * 146097 + doe - 719468

\* The time zone of the server process: its offset from UTC in minutes
\* (local = UTC + offset), the same all year.
FixedZone(offset) == [offset |-> offset]

\* LocalTime(t) of Date: the wall-clock reading of the instant.
LocalTime(zone, utc) == Plus(utc, zone.offset * 60)

\* UTC(t) of Date: the instant of a wall-clock reading.
UtcOfLocal(zone, local) == Plus(local, 0 - zone.offset * 60)

\* TimeClip of Date: a time value is at most 100,000,000 days from the
\* epoch.
MaxDateDay == 100000000

TimeClipped(utc) ==
  \/ utc.day > MaxDateDay
  \/ utc.day < 0 - MaxDateDay
  \/ (utc.day = MaxDateDay /\ utc.sec > 0)

\* ------------------------------------------------------------------
\* dayjs: the instant built from a time-of-day string
\* ------------------------------------------------------------------

\* The clock of the server process at its tick n: 2026-03-08 05:30:00 UTC
\* at tick 0, and 8 h 45 min 20 s more with every tick.
ClockStart == Instant(DaysFromCivil(2026, 3, 8), 5 * 3600 + 30 * 60)

ClockStep == 8 * 3600 + 45 * 60 + 20

ClockAt(n) == Plus(ClockStart, n * ClockStep)

\* dayjs(): the current instant, read in local time.
DayjsNow(clock) == [valid |-> TRUE, utc |-> FALSE, instant |-> clock]

InvalidDayjs(d) == [d EXCEPT !.valid = FALSE]

\* Date.setHours(n), setMinutes(n), setSeconds(n): the wall-clock reading
\* of the instant with one component replaced. An out-of-range n carries
\* into the larger components.
SetComponent(local, unit, n) ==
  LET h == local.sec \div 3600
      m == (local.sec % 3600) \div 60
      s == local.sec % 60
  IN  IF unit = "hour"
        THEN Instant(local.day + (n \div 24), (n % 24) * 3600 + m * 60 + s)
      ELSE IF unit = "minute"
        THEN Instant(local.day + (n \div 1440),
                     h * 3600 + (n % 1440) * 60 + s)
      ELSE Instant(local.day + (n \div SecondsPerDay),
                   h * 3600 + m * 60 + (n % SecondsPerDay))

\* dayjs.set(unit, n) on a value in local time: a clone whose Date had the
\* component set, and so names an instant again before the next call. NaN
\* makes the date invalid, and so does an instant out of Date's range.
DayjsSet(d, unit, n, zone) ==
  IF n.nan \/ ~d.valid THEN InvalidDayjs(d)
  ELSE
    LET utc == UtcOfLocal(zone,
                          SetComponent(LocalTime(zone, d.instant), unit, n.val))
    IN  IF TimeClipped(utc) THEN InvalidDayjs(d)
        ELSE [d EXCEPT !.instant = utc]

\* DayjsUtc without the switch to UTC: the value stays in local time.
MutDayjsUtcKeepsLocal(d) == d

\* dayjs.utc(): the same instant, read in UTC from now on.
DayjsUtc(d) == [d EXCEPT !.utc = TRUE]

\* dayjs.format("HH:mm:ss"): only the time of day is rendered.
DayjsFormat(d, zone) ==
  IF ~d.valid THEN InvalidDateString
  ELSE
    LET seconds == (IF d.utc THEN d.instant
                    ELSE LocalTime(zone, d.instant)).sec
    IN  Pad2(seconds \div 3600) \o Colon \o
        Pad2((seconds % 3600) \div 60) \o Colon \o
        Pad2(seconds % 60)

\* availableFromTimeUTC / availableToTimeUTC and their format("HH:mm:ss").
NormalizeTime(t, zone, clock) ==
  LET parts == SplitColon(t)
      d == DayjsSet(DayjsSet(DayjsSet(DayjsNow(clock),
                                      "hour", ParseIntAt(parts, 1), zone),
                             "minute", ParseIntAt(parts, 2), zone),
                    "second", ParseIntAt(parts, 3), zone)
  IN  DayjsFormat(DayjsUtc(d), zone)

\* ------------------------------------------------------------------
\* JavaScript numbers: the price of the form and its product with 100
\* ------------------------------------------------------------------

\* A natural number as its binary digits, the least significant first,
\* without leading zeros (0 is the empty sequence).
RECURSIVE BitsOf(_)
BitsOf(n) == IF n = 0 THEN <<>> ELSE <<n % 2>> \o BitsOf(n \div 2)

RECURSIVE BitsValue(_)
BitsValue(bits) ==
  IF bits = <<>> THEN 0 ELSE Head(bits) + 2 * BitsValue(Tail(bits))

\* bits without the zeros at its end.
RECURSIVE StripZerosAtEnd(_)
StripZerosAtEnd(bits) ==
  IF bits # <<>> /\ bits[Len(bits)] = 0
    THEN StripZerosAtEnd(SubSeq(bits, 1, Len(bits) - 1))
    ELSE bits

\* a + b + carry on binary digits.
RECURSIVE AddBits(_, _, _)
AddBits(a, b, carry) ==
  IF a = <<>> /\ b = <<>> THEN (IF carry = 1 THEN <<1>> ELSE <<>>)
  ELSE LET x == IF a = <<>> THEN 0 ELSE Head(a)
           y == IF b = <<>> THEN 0 ELSE Head(b)
           sum == x + y + carry
       IN  <<sum % 2>> \o AddBits(IF a = <<>> THEN <<>> ELSE Tail(a),
                                  IF b = <<>> THEN <<>> ELSE Tail(b),
                                  sum \div 2)

\* bits * 2^k.
ShiftLeft(bits, k) ==
  IF bits = <<>> THEN <<>> ELSE [i \in 1..k |-> 0] \o bits

\* The significand of a double has 53 binary digits.
SignificandBits == 53

\* A positive value bits * 2^exp rounded to a double, to nearest, ties to
\* even: the 53 leading digits, one more when the digits dropped are more
\* than half a unit of the last kept one, or exactly half and the last kept
\* digit is odd. sticky tells that the value exceeds bits * 2^exp by less
\* than one unit of the last digit of bits.
RoundToDouble(bits, exp, sticky) ==
  LET drop == Len(bits) - SignificandBits
  IN  IF drop <= 0 THEN [bits |-> bits, exp |-> exp]
      ELSE LET kept == SubSeq(bits, drop + 1, Len(bits))
               half == bits[drop] = 1
               rest == sticky \/ \E i \in 1..(drop - 1) : bits[i] = 1
               up == half /\ (rest \/ kept[1] = 1)
               rounded == IF up THEN AddBits(kept, <<1>>, 0) ELSE kept
           IN  IF Len(rounded) > SignificandBits
                 THEN [bits |-> Tail(rounded), exp |-> exp + drop + 1]
                 ELSE [bits |-> rounded, exp |-> exp + drop]

\* The binary digits of numerator / 100, enough of them to round: the
\* digits found so far, the remainder of the division and the number of
\* digits after the binary point.
RECURSIVE DivideBy100(_, _, _)
DivideBy100(bits, remainder, places) ==
  IF Len(bits) > SignificandBits \/ (remainder = 0 /\ bits # <<>>)
    THEN [bits |-> bits, remainder |-> remainder, places |-> places]
    ELSE LET digit == IF 2 * remainder >= 100 THEN 1 ELSE 0
         IN  DivideBy100(IF bits = <<>> /\ digit = 0 THEN <<>>
                         ELSE <<digit>> \o bits,
                         2 * remainder - 100 * digit, places + 1)

\* A price in currency units with at most two decimals, as the price input
\* yields it (decimalScale 2, not negative): the double nearest to
\* units.hundredths. The field holds undefined once the user clears it.
Price(units, hundredths) ==
  [defined |-> TRUE, units |-> units, hundredths |-> hundredths]

UndefinedPrice == [defined |-> FALSE, units |-> 0, hundredths |-> 0]

\* a < b on two such doubles: rounding to the nearest double keeps the
\* order of the decimals, and 1 is a double.
PriceLess(p, q) ==
  p.units < q.units \/ (p.units = q.units /\ p.hundredths < q.hundredths)

\* The double of a price, as digits * 2^exp.
PriceDouble(p) ==
  LET cents == p.units * 100 + p.hundredths
      d == DivideBy100(BitsOf(cents \div 100), cents % 100, 0)
  IN  RoundToDouble(d.bits, 0 - d.places, d.remainder # 0)

\* A JavaScript number that is not negative, written exactly: its integer
\* part and the binary digits after the point, the first after the point
\* first, without trailing zeros. An integer has no such digit.
JsNumber(whole, fraction) == [whole |-> whole, fraction |-> fraction]

JsInteger(n) == JsNumber(n, <<>>)

\* The number digits * 2^exp as a JsNumber.
RECURSIVE Reverse(_)
Reverse(s) == IF s = <<>> THEN <<>> ELSE Reverse(Tail(s)) \o <<Head(s)>>

DoubleAsJsNumber(x) ==
  IF x.exp >= 0 THEN JsInteger(BitsValue(ShiftLeft(x.bits, x.exp)))
  ELSE LET places == 0 - x.exp
           padded == x.bits \o [i \in 1..(places - Len(x.bits)) |-> 0]
           low == SubSeq(padded, 1, places)
           high == SubSeq(padded, places + 1, Len(padded))
       IN  JsNumber(BitsValue(high), StripZerosAtEnd(Reverse(low)))

\* price * 100 in double arithmetic: the exact product of the double of the
\* price with 100 (64 + 32 + 4), rounded to a double.
PriceTimes100(p) ==
  IF p.units = 0 /\ p.hundredths = 0 THEN JsInteger(0)
  ELSE LET x == PriceDouble(p)
           product == AddBits(ShiftLeft(x.bits, 6),
                              AddBits(ShiftLeft(x.bits, 5),
                                      ShiftLeft(x.bits, 2), 0), 0)
       IN  DoubleAsJsNumber(RoundToDouble(product, x.exp, FALSE))

\* cents / 100 in double arithmetic: the division is correctly rounded, so
\* the quotient is the double nearest to the decimal cents / 100.
CentsOver100(cents) == Price(cents \div 100, cents % 100)

\* ------------------------------------------------------------------
\* Identities, sessions
\* ------------------------------------------------------------------

\* The uuids the requests name.
Ids == {"d1"}

\* A string that is not a uuid.
NotUuid == "not-a-uuid"

Clinics == {"c1", "c2"}

\* id: undefined in a payload.
NoId == "none"

\* session.user.clinic: undefined.
NoClinic == "none"

\* getSession() returned null.
NoSession == [user |-> "none", clinic |-> NoClinic]

Sessions ==
  {NoSession} \cup {[user |-> "u", clinic |-> c] : c \in Clinics \cup {NoClinic}}

HasUser(session) == session.user # "none"

\* The uuids gen_random_uuid() yields.
GeneratedIds == {"d2"}

Uuids == Ids \cup GeneratedIds

\* z.string().uuid()
IsUuid(id) == id \in Uuids

\* object?.key is defined: the object has the key, and an id or a clinicId
\* is not the undefined one.
Defined(object, key) ==
  /\ key \in DOMAIN object
  /\ key = "id" => object.id # NoId
  /\ key = "clinicId" => object.clinicId # NoClinic

\* ------------------------------------------------------------------
\* Validation schemas
\* ------------------------------------------------------------------

Issue(path, code) == [path |-> path, code |-> code]

IssueIf(cond, path, code) == IF cond THEN {Issue(path, code)} ELSE {}

\* z.string().trim().min(1) and z.string().min(1): the value is too small
\* when the (trimmed) string is empty.
TooSmallIf(cond, path) == IssueIf(cond, path, "too_small")

\* TimeOrderOk with <= for <: equal times pass.
MutTimeOrderOkAllowsEqual(data) ==
  ~StrLess(data.availableToTime, data.availableFromTime)

\* The refinement of the object: the start must sort strictly before the
\* end, and the issue is put on availableToTime.
TimeOrderOk(data) == StrLess(data.availableFromTime, data.availableToTime)

TimeOrderIssues(data) ==
  IF TimeOrderOk(data) THEN {} ELSE {Issue("availableToTime", "custom")}

\* The issues of the fields of formSchema's object: every field is
\* checked. A number field that holds undefined fails on its type.
FormFieldIssues(values) ==
  TooSmallIf(Len(Trim(values.name)) < 1, "name") \cup
  TooSmallIf(Len(Trim(values.specialty)) < 1, "specialty") \cup
  IssueIf(~values.appointmentPrice.defined, "appointmentPrice",
          "invalid_type") \cup
  TooSmallIf(values.appointmentPrice.defined
               /\ PriceLess(values.appointmentPrice, Price(1, 0)),
             "appointmentPrice") \cup
  TooSmallIf(Len(values.availableFromTime) < 1, "availableFromTime") \cup
  TooSmallIf(Len(values.availableToTime) < 1, "availableToTime")

\* A field that fails on its type aborts the object, and zod does not run
\* the refinement of an aborted object.
Aborted(issues) == \E i \in issues : i.code = "invalid_type"

\* formSchema.safeParse(values).
FormSchemaIssues(values) ==
  IF Aborted(FormFieldIssues(values)) THEN FormFieldIssues(values)
  ELSE FormFieldIssues(values) \cup TimeOrderIssues(values)

\* The values the form hands to onSubmit: name and specialty trimmed.
FormSchemaData(values) ==
  [values EXCEPT !.name = Trim(values.name),
                 !.specialty = Trim(values.specialty)]

\* The issues of one weekday of the action's input: an integer from 0 to
\* 6. A payload without the key fails on the type of the field, and
\* z.number() refuses NaN as a value of the wrong type.
WeekdayIssues(raw, key) ==
  IF key \notin DOMAIN raw THEN {Issue(key, "invalid_type")}
  ELSE IssueIf(raw[key].nan, key, "invalid_type") \cup
       TooSmallIf(~raw[key].nan /\ raw[key].val < 0, key) \cup
       IssueIf(~raw[key].nan /\ raw[key].val > 6, key, "too_big")

\* upsertDoctorSchema, the input schema of the upsert action: an optional
\* uuid, a name and a specialty that are not empty once trimmed, a price of
\* at least one cent, the weekdays availableFromWeekday and
\* availableToWeekday, and two times that are not empty.
UpsertDoctorFieldIssues(raw) ==
  IssueIf(raw.id # NoId /\ ~IsUuid(raw.id), "id", "invalid_string") \cup
  TooSmallIf(Len(Trim(raw.name)) < 1, "name") \cup
  TooSmallIf(Len(Trim(raw.specialty)) < 1, "specialty") \cup
  TooSmallIf(raw.appointmentPriceInCents.whole < 1,
             "appointmentPriceInCents") \cup
  WeekdayIssues(raw, "availableFromWeekday") \cup
  WeekdayIssues(raw, "availableToWeekday") \cup
  TooSmallIf(Len(raw.availableFromTime) < 1, "availableFromTime") \cup
  TooSmallIf(Len(raw.availableToTime) < 1, "availableToTime")

\* The cross-field rule follows the fields, as in the form's schema.
UpsertDoctorSchemaIssues(raw) ==
  IF Aborted(UpsertDoctorFieldIssues(raw)) THEN UpsertDoctorFieldIssues(raw)
  ELSE UpsertDoctorFieldIssues(raw) \cup TimeOrderIssues(raw)

\* parsedInput: the declared keys only, name and specialty trimmed. A key
\* the schema does not declare (clinicId, appointmentPrice, the form's
\* availableFromWeekDay and availableToWeekDay) is dropped.
UpsertDoctorSchemaData(raw) ==
  [id |-> raw.id,
   name |-> Trim(raw.name),
   specialty |-> Trim(raw.specialty),
   appointmentPriceInCents |-> raw.appointmentPriceInCents,
   availableFromWeekday |-> raw.availableFromWeekday.val,
   availableToWeekday |-> raw.availableToWeekday.val,
   availableFromTime |-> raw.availableFromTime,
   availableToTime |-> raw.availableToTime]
\* ------------------------------------------------------------------
\* State
\* ------------------------------------------------------------------

VARIABLES
  doctors,       \* the rows of the doctors table
  appointments,  \* the rows of the appointments table
  now,           \* the database's clock, read by now()
  nodeNow,       \* the server process's clock, in ticks
  timeZone,      \* the server process's time zone
  inflight,      \* the requests under way, by slot: where each stands,
                 \* the locals of its handler, and what it has done
  taken,         \* the number of requests taken up so far
  everBound,     \* history: the <<doctor id, clinic id>> pairs ever stored
  lastWrite      \* history: per doctor id, the slot whose statement on that
                 \* id reached the database last (0: none)

vars ==
  <<doctors, appointments, now, nodeNow, timeZone, inflight, taken,
    everBound, lastWrite>>

\* ------------------------------------------------------------------
\* The doctors and appointments tables
\* ------------------------------------------------------------------

\* time columns: the text Postgres accepts here is HH:MM:SS.
IsTimeOfDay(t) ==
  /\ Len(t) = 8
  /\ <<t[3]>> = Colon /\ <<t[6]>> = Colon
  /\ \A k \in {1, 2, 4, 5, 7, 8} : IsDigit(t[k])
  /\ DigitsValue(SubSeq(t, 1, 2), 10) < 24
  /\ DigitsValue(SubSeq(t, 4, 5), 10) < 60
  /\ DigitsValue(SubSeq(t, 7, 8), 10) < 60

RowsWithId(table, id) == {r \in table : r.id = id}

\* db.query.doctorsTable.findFirst({ where: eq(id) }): a row, or none.
FindFirst(table, id) ==
  IF RowsWithId(table, id) = {} THEN [found |-> FALSE]
  ELSE [found |-> TRUE, row |-> CHOOSE r \in RowsWithId(table, id) : TRUE]

\* .values({...parsedInput, id, clinicId, availableFromTime, availableToTime}):
\* the keys written after the spread win over the payload's.
InsertValues(parsedInput, clinicId, fromTime, toTime) ==
  [id |-> parsedInput.id, clinicId |-> clinicId,
   availableFromTime |-> fromTime, availableToTime |-> toTime]
  @@ parsedInput

\* set: {...parsedInput, availableFromTime, availableToTime}.
ConflictSet(parsedInput, fromTime, toTime) ==
  [availableFromTime |-> fromTime, availableToTime |-> toTime] @@ parsedInput

\* A key of an object given to drizzle carries a value for a column when
\* the table declares a column under that key and the value is not
\* undefined.
Provided(values, column) == Defined(values, column)

\* The value a column receives: the object's, or else the given default.
ColumnValue(values, column, default) ==
  IF Provided(values, column) THEN values[column] ELSE default

\* The keys of doctorsTable that are notNull() and have no default.
RequiredColumns ==
  {"name", "specialty", "availableFromWeekday", "availableToWeekday",
   "availableFromTime", "availableToTime", "appointmentPriceInCents",
   "clinicId"}

\* The database refuses the statement: a not-null column without a default
\* is given no value, a time is not text the time column accepts, or the
\* price is not an integer.
Refused(values) ==
  \/ \E column \in RequiredColumns : ~Provided(values, column)
  \/ ~IsTimeOfDay(values.availableFromTime)
  \/ ~IsTimeOfDay(values.availableToTime)
  \/ values.appointmentPriceInCents.fraction # <<>>

\* ConflictUpdate leaving the name out of the update: the row keeps the
\* name it had.
MutConflictUpdateKeepsName(row, set, nodeTime) ==
  [id |-> ColumnValue(set, "id", row.id),
   name |-> row.name,
   avatarImageUrl |-> ColumnValue(set, "avatarImageUrl", row.avatarImageUrl),
   specialty |-> ColumnValue(set, "specialty", row.specialty),
   appointmentPriceInCents |->
     IF Provided(set, "appointmentPriceInCents")
       THEN set.appointmentPriceInCents.whole
       ELSE row.appointmentPriceInCents,
   availableFromWeekday |->
     ColumnValue(set, "availableFromWeekday", row.availableFromWeekday),
   availableToWeekday |->
     ColumnValue(set, "availableToWeekday", row.availableToWeekday),
   availableFromTime |->
     ColumnValue(set, "availableFromTime", row.availableFromTime),
   availableToTime |->
     ColumnValue(set, "availableToTime", row.availableToTime),
   clinicId |-> ColumnValue(set, "clinicId", row.clinicId),
   createdAt |-> row.createdAt,
   updatedAt |-> [clock |-> "node", at |-> nodeTime]]

\* ConflictUpdate with the $onUpdate also on createdAt.
MutConflictUpdateResetsCreatedAt(row, set, nodeTime) ==
  [id |-> ColumnValue(set, "id", row.id),
   name |-> ColumnValue(set, "name", row.name),
   avatarImageUrl |-> ColumnValue(set, "avatarImageUrl", row.avatarImageUrl),
   specialty |-> ColumnValue(set, "specialty", row.specialty),
   appointmentPriceInCents |->
     IF Provided(set, "appointmentPriceInCents")
       THEN set.appointmentPriceInCents.whole
       ELSE row.appointmentPriceInCents,
   availableFromWeekday |->
     ColumnValue(set, "availableFromWeekday", row.availableFromWeekday),
   availableToWeekday |->
     ColumnValue(set, "availableToWeekday", row.availableToWeekday),
   availableFromTime |->
     ColumnValue(set, "availableFromTime", row.availableFromTime),
   availableToTime |->
     ColumnValue(set, "availableToTime", row.availableToTime),
   clinicId |-> ColumnValue(set, "clinicId", row.clinicId),
   createdAt |-> [clock |-> "node", at |-> nodeTime],
   updatedAt |-> [clock |-> "node", at |-> nodeTime]]

\* .onConflictDoUpdate({ target: id, set }): every column the set has a key
\* for is overwritten, the others keep their value, and updatedAt takes the
\* new Date() of its $onUpdate.
ConflictUpdate(row, set, nodeTime) ==
  [id |-> ColumnValue(set, "id", row.id),
   name |-> ColumnValue(set, "name", row.name),
   avatarImageUrl |-> ColumnValue(set, "avatarImageUrl", row.avatarImageUrl),
   specialty |-> ColumnValue(set, "specialty", row.specialty),
   appointmentPriceInCents |->
     IF Provided(set, "appointmentPriceInCents")
       THEN set.appointmentPriceInCents.whole
       ELSE row.appointmentPriceInCents,
   availableFromWeekday |->
     ColumnValue(set, "availableFromWeekday", row.availableFromWeekday),
   availableToWeekday |->
     ColumnValue(set, "availableToWeekday", row.availableToWeekday),
   availableFromTime |->
     ColumnValue(set, "availableFromTime", row.availableFromTime),
   availableToTime |->
     ColumnValue(set, "availableToTime", row.availableToTime),
   clinicId |-> ColumnValue(set, "clinicId", row.clinicId),
   createdAt |-> row.createdAt,
   updatedAt |-> [clock |-> "node", at |-> nodeTime]]

\* The value of a column that was given none and has no default.
Null == "null"

\* The row an insert stores: id defaults to a random uuid, createdAt and
\* updatedAt to the database's now(), and any other column without a value
\* to null.
NewRow(values, freshId, dbTime) ==
  [id |-> ColumnValue(values, "id", freshId),
   name |-> ColumnValue(values, "name", Null),
   avatarImageUrl |-> ColumnValue(values, "avatarImageUrl", Null),
   specialty |-> ColumnValue(values, "specialty", Null),
   appointmentPriceInCents |-> values.appointmentPriceInCents.whole,
   availableFromWeekday |-> ColumnValue(values, "availableFromWeekday", Null),
   availableToWeekday |-> ColumnValue(values, "availableToWeekday", Null),
   availableFromTime |-> ColumnValue(values, "availableFromTime", Null),
   availableToTime |-> ColumnValue(values, "availableToTime", Null),
   clinicId |-> ColumnValue(values, "clinicId", Null),
   createdAt |-> [clock |-> "database", at |-> dbTime],
   updatedAt |-> [clock |-> "database", at |-> dbTime]]

\* The single statement insert ... on conflict (id) do update set ...: the
\* row to insert is checked first, and a refused statement leaves the table
\* alone; then a row with the id is updated, or else the row is inserted.
InsertOnConflictDoUpdate(table, values, set, freshId, dbTime, nodeTime) ==
  IF Refused(values)
    THEN [ok |-> FALSE, table |-> table]
  ELSE IF Provided(values, "id") /\ RowsWithId(table, values.id) # {}
    THEN [ok |-> TRUE,
          table |-> (table \ RowsWithId(table, values.id)) \cup
                    {ConflictUpdate(r, set, nodeTime)
                       : r \in RowsWithId(table, values.id)}]
  ELSE [ok |-> TRUE, table |-> table \cup {NewRow(values, freshId, dbTime)}]

\* delete from doctors where id = ...: deleting no row is not an error.
DeleteWhereId(table, id) == table \ RowsWithId(table, id)

\* CascadeAppointments without the cascade: the appointments stay.
MutCascadeKeepsAppointments(appts, table) == appts

\* appointments.doctor_id references doctors(id) on delete cascade.
CascadeAppointments(appts, table) ==
  {a \in appts : RowsWithId(table, a.doctorId) # {}}

\* ------------------------------------------------------------------
\* The doctor form
\* ------------------------------------------------------------------

\* The form is opened without a doctor to add one.
NoDoctor == [id |-> NoId]

\* defaultValues of the form: each one reads a key of the doctor, and falls
\* back when there is no doctor or the doctor has no such key.
DefaultValues(doctor) ==
  [name |-> IF Defined(doctor, "name") THEN doctor.name ELSE <<>>,
   specialty |-> IF Defined(doctor, "specialty") THEN doctor.specialty
                 ELSE <<>>,
   appointmentPrice |->
     IF Defined(doctor, "appointmentPriceInCents")
          /\ doctor.appointmentPriceInCents # 0
       THEN CentsOver100(doctor.appointmentPriceInCents)
       ELSE Price(0, 0),
   availableFromWeekDay |->
     IF Defined(doctor, "availableFromWeekDay")
       THEN IntToString(doctor.availableFromWeekDay)
       ELSE IntToString(1),
   availableToWeekDay |->
     IF Defined(doctor, "availableToWeekDay")
       THEN IntToString(doctor.availableToWeekDay)
       ELSE IntToString(5),
   availableFromTime |->
     IF Defined(doctor, "availableFromTime") THEN doctor.availableFromTime
     ELSE <<>>,
   availableToTime |->
     IF Defined(doctor, "availableToTime") THEN doctor.availableToTime
     ELSE <<>>]

\* onSubmit: the payload handed to upsertDoctor.execute. The spread keeps
\* the form's appointmentPrice, a key the action's schema does not declare.
OnSubmit(doctor, values) ==
  [id |-> IF Defined(doctor, "id") THEN doctor.id ELSE NoId,
   name |-> values.name,
   specialty |-> values.specialty,
   appointmentPrice |-> values.appointmentPrice,
   appointmentPriceInCents |-> PriceTimes100(values.appointmentPrice),
   availableFromWeekDay |-> ParseInt(values.availableFromWeekDay),
   availableToWeekDay |-> ParseInt(values.availableToWeekDay),
   availableFromTime |-> values.availableFromTime,
   availableToTime |-> values.availableToTime]

\* No request is on its way.
NothingSent == [sent |-> FALSE]

\* form.handleSubmit(onSubmit) in the browser: the resolver validates the
\* values; invalid values put their issues on the form and nothing is sent,
\* valid ones reach onSubmit, which sends the payload to the action.
HandleSubmit(doctor, values) ==
  IF FormSchemaIssues(values) # {}
    THEN [issues |-> FormSchemaIssues(values), request |-> NothingSent]
    ELSE [issues |-> {},
          request |-> [sent |-> TRUE,
                       payload |-> OnSubmit(doctor, FormSchemaData(values))]]

\* ------------------------------------------------------------------
\* Inputs of the requests
\* ------------------------------------------------------------------

TimeString(h, m, sec) == Pad2(h) \o Colon \o Pad2(m) \o Colon \o Pad2(sec)

T0800 == TimeString(8, 0, 0)

T1800 == TimeString(18, 0, 0)

T2330 == TimeString(23, 30, 0)

\* "Ana"
NameAna == <<65, 110, 97>>

\* "Bia"
NameBia == <<66, 105, 97>>

\* "cardio"
Cardiologia == <<99, 97, 114, 100, 105, 111>>

\* The tab character, and "\tAna".
Tab == <<9>>

NameAnaPadded == Tab \o NameAna

AppointmentIds == {"a1", "a2"}

\* A row of the doctors table, keyed as the table declares its columns.
DoctorRow(id, clinicId, name, cents, fromWeekday, toWeekday, fromTime, toTime) ==
  [id |-> id,
   name |-> name,
   avatarImageUrl |-> Null,
   specialty |-> Cardiologia,
   appointmentPriceInCents |-> cents,
   availableFromWeekday |-> fromWeekday,
   availableToWeekday |-> toWeekday,
   availableFromTime |-> fromTime,
   availableToTime |-> toTime,
   clinicId |-> clinicId,
   createdAt |-> [clock |-> "database", at |-> 0],
   updatedAt |-> [clock |-> "database", at |-> 0]]

\* The doctors the database holds when the server is started against it:
\* none, or a doctor of the first clinic.
DoctorAna == DoctorRow("d1", "c1", NameAna, 15000, 2, 4, T0800, T2330)

SeedTables == {{}, {DoctorAna}}

\* A payload sent to the upsert action. extra is a clinicId key smuggled
\* into the payload ("none": no such key).
RawInput(id, name, cents, fromTime, toTime, extra) ==
  [id |-> id, name |-> name, specialty |-> Cardiologia,
   appointmentPriceInCents |-> JsInteger(cents),
   availableFromWeekday |-> Num(1), availableToWeekday |-> Num(5),
   availableFromTime |-> fromTime, availableToTime |-> toTime,
   clinicId |-> extra]


\* The payload of a save that changes nothing: the values the row holds,
\* under the fields the action's schema declares.
StoredValues(row) ==
  [id |-> row.id, name |-> row.name, specialty |-> row.specialty,
   appointmentPriceInCents |-> JsInteger(row.appointmentPriceInCents),
   availableFromWeekday |-> Num(row.availableFromWeekday),
   availableToWeekday |-> Num(row.availableToWeekday),
   availableFromTime |-> row.availableFromTime,
   availableToTime |-> row.availableToTime,
   clinicId |-> NoClinic]
SessionOf(clinic) == [user |-> "u", clinic |-> clinic]

Call(session, input) == [session |-> session, input |-> input]

\* The calls of the upsert action: for the doctor by a user of each clinic,
\* by a user without a clinic and without a session; without an id, and
\* with a clinicId key, by a user of the other clinic; with an id that is
\* not a uuid.
UpsertCalls ==
  {Call(session, RawInput("d1", NameBia, 9900, T0800, T2330, NoClinic))
     : session \in Sessions}
  \cup {Call(SessionOf("c2"),
             RawInput(NoId, NameAnaPadded, 15000, T0800, T2330, "c1")),
        Call(SessionOf("c1"),
             RawInput(NotUuid, NameAna, 15000, T0800, T2330, NoClinic))}

\* The calls of the delete action: for the doctor by any session, and with
\* an id that is not a uuid.
DeleteCalls ==
  {Call(session, "d1") : session \in Sessions}
  \cup {Call(SessionOf("c1"), NotUuid)}

\* What a user may leave in the form opened for doctor: the defaults, a
\* complete valid entry, an entry with start and end swapped, one with
\* start and end equal, one with the price field cleared and the times
\* swapped, one whose name is a tab.
FormEntry(doctor, fromTime, toTime) ==
  [DefaultValues(doctor) EXCEPT !.name = NameAna, !.specialty = Cardiologia,
     !.appointmentPrice = Price(150, 0),
     !.availableFromTime = fromTime, !.availableToTime = toTime]

FormValues(doctor) ==
  {DefaultValues(doctor),
   FormEntry(doctor, T0800, T2330),
   FormEntry(doctor, T2330, T0800),
   FormEntry(doctor, T0800, T0800),
   [FormEntry(doctor, T2330, T0800) EXCEPT !.appointmentPrice = UndefinedPrice],
   [FormEntry(doctor, T0800, T2330) EXCEPT !.name = Tab]}

\* The doctors page lists the doctors of the session's clinic; the form is
\* opened for one of them, or without a doctor.
FormDoctors(session) ==
  {NoDoctor} \cup {r \in doctors : r.clinicId = session.clinic}

\* gen_random_uuid(): an id no row has ever carried.
FreshIds == GeneratedIds \ {p[1] : p \in everBound}

\* The id the insert may need: none when the payload carries one.
FreshFor(id) == IF id = NoId THEN FreshIds ELSE {NoId}

\* The requests without an id that are on their way to their statement.
AwaitingId ==
  {slot \in DOMAIN inflight :
     /\ inflight[slot].op \in {"upsert", "form"}
     /\ inflight[slot].input.id = NoId
     /\ inflight[slot].pc \in {"wire", "session", "write"}}

\* The model's database generates the ids of GeneratedIds only: a request
\* without an id is taken up while one is left for it.
IdLeftFor(id) ==
  id = NoId => Cardinality(FreshIds) > Cardinality(AwaitingId)

\* ------------------------------------------------------------------
\* A request under way
\* ------------------------------------------------------------------

\* The request was not made through the form.
NoForm == [opened |-> FALSE]

\* A request: the action ("form": the upsert action called by the form),
\* the session getSession will yield, the input, the form it came from,
\* the await the handler stands at, the handler's locals (fromTime,
\* toTime, doctor), and what it has done: the issues of a validation, the
\* result, whether it reached the action, whether getSession answered,
\* whether the storage was available at findFirst and at the statement
\* ("none": not reached), whether the statement was applied, and whether
\* revalidatePath was called. The rest is history: whether a step of the
\* request changed a table, the appointments removed with the doctor its
\* statement deleted, the rows with the input's id when the request
\* reached the action (atStart), just before its statement (met) and just
\* after it (stored; for a request without id, the rows the statement
\* added), the tick of the process's clock at which the times were
\* computed, and the await the request now in the other slot stood at
\* when this one reached the action and when its statement was applied
\* ("idle": it was not there).
NewProc(op, session, input) ==
  [op |-> op, session |-> session, input |-> input, form |-> NoForm,
   pc |-> "start", fromTime |-> <<>>, toTime |-> <<>>,
   doctor |-> [found |-> FALSE], issues |-> {}, result |-> "pending",
   arrived |-> FALSE, lookedUp |-> FALSE, storageAtFind |-> "none",
   storageAtWrite |-> "none", wrote |-> FALSE, revalidated |-> FALSE,
   changed |-> FALSE, cascaded |-> {}, atStart |-> {}, met |-> {},
   stored |-> {},
   clock |-> 0, peerAtStart |-> "idle", peerAtWrite |-> "idle"]

\* A slot with no request in it.
IdleProc == [NewProc("none", NoSession, [id |-> NoId]) EXCEPT !.pc = "idle"]

Slots == {1, 2}

Peer(slot) == 3 - slot

NoneInFlight == [slot \in Slots |-> IdleProc]

NoLastWrite == [id \in Ids |-> 0]

Bindings(table) == {<<r.id, r.clinicId>> : r \in table}

Step(p, pc) == [p EXCEPT !.pc = pc]

StorageState(storageUp) == IF storageUp THEN "up" ELSE "down"

\* throw new Error(...), or a rejected await: the handler ends there.
Fail(p, result) == [p EXCEPT !.pc = "done", !.result = result]

\* A schema refuses the input: the issues are the answer.
Reject(p, issues) ==
  [p EXCEPT !.pc = "done", !.result = "ValidationFailed", !.issues = issues]

\* The rows a statement on id is about, in the table it meets.
Target(table, id) == IF id = NoId THEN {} ELSE RowsWithId(table, id)

\* The rows a statement on id leaves: those with the id, or the rows it
\* added when it carried none.
Written(before, after, id) ==
  IF id = NoId THEN {r \in after : RowsWithId(before, r.id) = {}}
  ELSE RowsWithId(after, id)

\* ------------------------------------------------------------------
\* The steps of upsertDoctorAction, from one await to the next
\* ------------------------------------------------------------------

\* form.handleSubmit(onSubmit) in the browser, for the form opened for
\* doctor when the page was rendered: invalid values end there, with the
\* issues shown on the form; valid ones put a request on its way.
SubmitFormStep(session, doctor, values) ==
  IF HandleSubmit(doctor, values).request.sent
    THEN [NewProc("form", session,
                  HandleSubmit(doctor, values).request.payload)
            EXCEPT !.form = [opened |-> TRUE, doctor |-> doctor,
                             values |-> values],
                   !.pc = "wire"]
    ELSE Reject([NewProc("form", session, [id |-> NoId])
                   EXCEPT !.form = [opened |-> TRUE, doctor |-> doctor,
                                    values |-> values]],
                HandleSubmit(doctor, values).issues)

\* .inputSchema(upsertDoctorSchema): the handler is entered only with a
\* payload the schema accepts.
UpsertStart(p) ==
  IF UpsertDoctorSchemaIssues(p.input) # {}
    THEN Reject([p EXCEPT !.arrived = TRUE], UpsertDoctorSchemaIssues(p.input))
    ELSE Step([p EXCEPT !.arrived = TRUE], "session")

\* UpsertSessionStep without the check that the user has a clinic.
MutUpsertSessionNoClinicCheck(p, zone, tick) ==
  IF ~HasUser(p.session)
    THEN Fail([p EXCEPT !.lookedUp = TRUE], "Unauthenticated")
  ELSE
    [p EXCEPT
       !.lookedUp = TRUE,
       !.fromTime =
         NormalizeTime(UpsertDoctorSchemaData(p.input).availableFromTime,
                       zone, ClockAt(tick)),
       !.toTime =
         NormalizeTime(UpsertDoctorSchemaData(p.input).availableToTime,
                       zone, ClockAt(tick)),
       !.clock = tick,
       !.pc = "write"]

\* await getSession, and what the handler does before its next await: the
\* checks of the user and of the clinic, and availableFromTimeUTC and
\* availableToTimeUTC, each built from dayjs(); the statement is then on
\* its way to the database.
UpsertSessionStep(p, zone, tick) ==
  IF ~HasUser(p.session)
    THEN Fail([p EXCEPT !.lookedUp = TRUE], "Unauthenticated")
  ELSE IF p.session.clinic = NoClinic
    THEN Fail([p EXCEPT !.lookedUp = TRUE], "NoClinicAssociation")
  ELSE
    [p EXCEPT
       !.lookedUp = TRUE,
       !.fromTime =
         NormalizeTime(UpsertDoctorSchemaData(p.input).availableFromTime,
                       zone, ClockAt(tick)),
       !.toTime =
         NormalizeTime(UpsertDoctorSchemaData(p.input).availableToTime,
                       zone, ClockAt(tick)),
       !.clock = tick,
       !.pc = "write"]

\* UpsertStatementOf taking the clinic of the row from the payload when
\* the payload names one: clinicId: input.clinicId ?? session.user.clinic.id.
MutUpsertStatementOfPayloadClinic(p, table, freshId, dbTime, nodeTime, storageUp) ==
  IF storageUp
    THEN InsertOnConflictDoUpdate(
           table,
           InsertValues(UpsertDoctorSchemaData(p.input),
                        IF Defined(p.input, "clinicId") THEN p.input.clinicId
                        ELSE p.session.clinic,
                        p.fromTime, p.toTime),
           ConflictSet(UpsertDoctorSchemaData(p.input), p.fromTime, p.toTime),
           freshId, dbTime, nodeTime)
    ELSE [ok |-> FALSE, table |-> table]

\* The statement issued with the handler's locals. A database that cannot
\* be reached refuses it as well.
UpsertStatementOf(p, table, freshId, dbTime, nodeTime, storageUp) ==
  IF storageUp
    THEN InsertOnConflictDoUpdate(
           table,
           InsertValues(UpsertDoctorSchemaData(p.input), p.session.clinic,
                        p.fromTime, p.toTime),
           ConflictSet(UpsertDoctorSchemaData(p.input), p.fromTime, p.toTime),
           freshId, dbTime, nodeTime)
    ELSE [ok |-> FALSE, table |-> table]

\* The request with its statement on record: the storage, the other
\* request, the rows before and after.
AtStatement(p, before, after, storageUp, peerPc) ==
  [p EXCEPT !.storageAtWrite = StorageState(storageUp),
            !.peerAtWrite = peerPc,
            !.met = Target(before, p.input.id),
            !.stored = Written(before, after, p.input.id)]

\* UpsertWriteStep with revalidatePath in a finally block: the signal is
\* sent also when the statement throws.
MutUpsertWriteSignalsOnFailure(p, table, freshId, dbTime, nodeTime, storageUp, peerPc) ==
  IF UpsertStatementOf(p, table, freshId, dbTime, nodeTime, storageUp).ok
    THEN [proc |->
            [AtStatement(p, table,
                         UpsertStatementOf(p, table, freshId, dbTime,
                                           nodeTime, storageUp).table,
                         storageUp, peerPc)
               EXCEPT !.pc = "revalidate", !.wrote = TRUE],
          table |-> UpsertStatementOf(p, table, freshId, dbTime, nodeTime,
                                      storageUp).table]
    ELSE [proc |->
            [AtStatement(p, table, table, storageUp, peerPc)
               EXCEPT !.pc = "done", !.result = "PersistenceError",
                      !.revalidated = TRUE],
          table |-> table]

\* await db.insert(...).values(...).onConflictDoUpdate(...): the statement
\* is applied as a whole, or it throws (the storage is unavailable, the
\* statement is refused) and the handler ends there.
UpsertWriteStep(p, table, freshId, dbTime, nodeTime, storageUp, peerPc) ==
  IF UpsertStatementOf(p, table, freshId, dbTime, nodeTime, storageUp).ok
    THEN [proc |->
            [AtStatement(p, table,
                         UpsertStatementOf(p, table, freshId, dbTime,
                                           nodeTime, storageUp).table,
                         storageUp, peerPc)
               EXCEPT !.pc = "revalidate", !.wrote = TRUE],
          table |-> UpsertStatementOf(p, table, freshId, dbTime, nodeTime,
                                      storageUp).table]
    ELSE [proc |->
            [AtStatement(p, table, table, storageUp, peerPc)
               EXCEPT !.pc = "done", !.result = "PersistenceError"],
          table |-> table]

\* revalidatePath("/doctors"), the last statement of both handlers.
RevalidateStep(p) ==
  [p EXCEPT !.revalidated = TRUE, !.result = "Success", !.pc = "done"]

\* ------------------------------------------------------------------
\* The steps of deleteDoctorAction
\* ------------------------------------------------------------------

\* z.object({ id: z.string().uuid() }), the input schema of the delete.
DeleteDoctorSchemaIssues(id) ==
  IssueIf(~IsUuid(id), "id", "invalid_string")

\* .inputSchema(...): the handler is entered only with a uuid.
DeleteStart(p) ==
  IF DeleteDoctorSchemaIssues(p.input.id) # {}
    THEN Reject([p EXCEPT !.arrived = TRUE],
                DeleteDoctorSchemaIssues(p.input.id))
    ELSE Step([p EXCEPT !.arrived = TRUE], "session")

\* await getSession, then the check of the user.
DeleteSessionStep(p) ==
  IF ~HasUser(p.session)
    THEN Fail([p EXCEPT !.lookedUp = TRUE], "Unauthenticated")
    ELSE Step([p EXCEPT !.lookedUp = TRUE], "find")

\* The request with the answer of findFirst on record.
AtFind(p, table, storageUp) ==
  IF storageUp
    THEN [p EXCEPT !.storageAtFind = "up",
                   !.doctor = FindFirst(table, p.input.id)]
    ELSE [p EXCEPT !.storageAtFind = "down"]

\* await findFirst, which throws when the storage is unavailable, then the
\* checks of the doctor found: that there is one, and that its clinic is
\* the session's.
DeleteFindStep(p, table, storageUp) ==
  IF ~storageUp THEN Fail(AtFind(p, table, storageUp), "PersistenceError")
  ELSE IF ~FindFirst(table, p.input.id).found
    THEN Fail(AtFind(p, table, storageUp), "NotFound")
  ELSE IF FindFirst(table, p.input.id).row.clinicId # p.session.clinic
    THEN Fail(AtFind(p, table, storageUp), "Forbidden")
  ELSE Step(AtFind(p, table, storageUp), "delete")

\* db.delete(doctorsTable).where(eq(doctorsTable.id, id)): it throws only
\* when the storage is unavailable.
DeleteStatement(table, id, storageUp) ==
  IF storageUp
    THEN [ok |-> TRUE, table |-> DeleteWhereId(table, id)]
    ELSE [ok |-> FALSE, table |-> table]

\* await db.delete(...): the statement is applied, or it throws and the
\* handler ends there.
DeleteWriteStep(p, table, storageUp, peerPc) ==
  IF DeleteStatement(table, p.input.id, storageUp).ok
    THEN [proc |->
            [AtStatement(p, table,
                         DeleteStatement(table, p.input.id, storageUp).table,
                         storageUp, peerPc)
               EXCEPT !.pc = "revalidate", !.wrote = TRUE],
          table |-> DeleteStatement(table, p.input.id, storageUp).table]
    ELSE [proc |->
            [AtStatement(p, table, table, storageUp, peerPc)
               EXCEPT !.pc = "done", !.result = "PersistenceError"],
          table |-> table]

\* ------------------------------------------------------------------
\* The state machine: the server takes requests up as they come and runs
\* their handlers interleaved at their awaits; the database applies each
\* statement as a whole.
\* ------------------------------------------------------------------

Init ==
  /\ doctors \in SeedTables
  /\ appointments = {}
  /\ now = 0
  /\ nodeNow = 0
  /\ timeZone = FixedZone(0 - 180)
  /\ inflight = NoneInFlight
  /\ taken = 0
  /\ everBound = Bindings(doctors)
  /\ lastWrite = NoLastWrite

\* A new request takes the first slot that is free.
Free(slot) ==
  /\ taken < MaxRequests
  /\ inflight[slot].pc = "idle"
  /\ \A other \in Slots : other < slot => inflight[other].pc # "idle"

\* The request as it reaches its action: the rows with its id then, and
\* where the other request stands.
Arriving(slot, p) ==
  [p EXCEPT !.atStart = Target(doctors, p.input.id),
            !.peerAtStart = inflight[Peer(slot)].pc]

\* A step of the request in slot takes effect: the handler's position and
\* locals, the tables, and the history.
Run(slot, proc, table) ==
  /\ inflight' =
       [inflight EXCEPT ![slot] =
          [proc EXCEPT
             !.changed =
               \/ proc.changed
               \/ table # doctors
               \/ CascadeAppointments(appointments, table) # appointments,
             !.cascaded =
               proc.cascaded
                 \cup (appointments \ CascadeAppointments(appointments, table))]]
  /\ taken' = IF inflight[slot].pc = "idle" THEN taken + 1 ELSE taken
  /\ doctors' = table
  /\ appointments' = CascadeAppointments(appointments, table)
  /\ everBound' = everBound \cup Bindings(table)
  /\ lastWrite' = IF proc.storageAtWrite = "up"
                       /\ inflight[slot].storageAtWrite # "up"
                       /\ proc.input.id \in Ids
                    THEN [lastWrite EXCEPT ![proc.input.id] = slot]
                    ELSE lastWrite
  /\ UNCHANGED <<now, nodeNow, timeZone>>

\* useAction(upsertDoctorAction).execute(raw), or any other call of the
\* action, reaches the server.
ReceiveUpsert(slot, session, raw) ==
  /\ Free(slot)
  /\ IdLeftFor(raw.id)
  /\ Run(slot, Arriving(slot, UpsertStart(NewProc("upsert", session, raw))),
         doctors)

\* The user submits the doctor form.
SubmitForm(slot, session, doctor, values) ==
  /\ Free(slot)
  /\ IdLeftFor(OnSubmit(doctor, values).id)
  /\ Run(slot, SubmitFormStep(session, doctor, values), doctors)

\* The request of the form reaches the server.
ReceiveForm(slot) ==
  /\ inflight[slot].pc = "wire"
  /\ Run(slot, Arriving(slot, UpsertStart(inflight[slot])), doctors)

UpsertSession(slot) ==
  /\ inflight[slot].op \in {"upsert", "form"} /\ inflight[slot].pc = "session"
  /\ Run(slot, UpsertSessionStep(inflight[slot], timeZone, nodeNow), doctors)

\* The database applies the awaited statement. The statement was built
\* right after the two dayjs() calls, before the await: the new Date() of
\* updatedAt's $onUpdate is the process's time of that moment, which the
\* request holds in clock, while now() is the database's time at the write.
UpsertWrite(slot, storageUp) ==
  /\ inflight[slot].op \in {"upsert", "form"} /\ inflight[slot].pc = "write"
  /\ \E freshId \in FreshFor(inflight[slot].input.id) :
       Run(slot,
           UpsertWriteStep(inflight[slot], doctors, freshId, now,
                           inflight[slot].clock, storageUp,
                           inflight[Peer(slot)].pc).proc,
           UpsertWriteStep(inflight[slot], doctors, freshId, now,
                           inflight[slot].clock, storageUp,
                           inflight[Peer(slot)].pc).table)

\* useAction(deleteDoctorAction).execute({ id }) reaches the server.
ReceiveDelete(slot, session, id) ==
  /\ Free(slot)
  /\ Run(slot,
         Arriving(slot, DeleteStart(NewProc("delete", session, [id |-> id]))),
         doctors)

DeleteSession(slot) ==
  /\ inflight[slot].op = "delete" /\ inflight[slot].pc = "session"
  /\ Run(slot, DeleteSessionStep(inflight[slot]), doctors)

DeleteFind(slot, storageUp) ==
  /\ inflight[slot].op = "delete" /\ inflight[slot].pc = "find"
  /\ Run(slot, DeleteFindStep(inflight[slot], doctors, storageUp), doctors)

DeleteWrite(slot, storageUp) ==
  /\ inflight[slot].op = "delete" /\ inflight[slot].pc = "delete"
  /\ Run(slot,
         DeleteWriteStep(inflight[slot], doctors, storageUp,
                         inflight[Peer(slot)].pc).proc,
         DeleteWriteStep(inflight[slot], doctors, storageUp,
                         inflight[Peer(slot)].pc).table)

Revalidate(slot) ==
  /\ inflight[slot].pc = "revalidate"
  /\ Run(slot, RevalidateStep(inflight[slot]), doctors)

\* The client takes the response, and the slot is free again; the other
\* request keeps no record of the one that left.
Respond(slot) ==
  /\ inflight[slot].pc = "done"
  /\ inflight' =
       [inflight EXCEPT ![slot] = IdleProc,
                        ![Peer(slot)].peerAtStart = "idle",
                        ![Peer(slot)].peerAtWrite = "idle"]
  /\ lastWrite' =
       [id \in Ids |-> IF lastWrite[id] = slot THEN 0 ELSE lastWrite[id]]
  /\ UNCHANGED <<doctors, appointments, now, nodeNow, timeZone, taken,
                 everBound>>

\* An appointment is booked with an existing doctor (the foreign key).
CreateAppointment(a, doctorId) ==
  /\ \A x \in appointments : x.id # a
  /\ RowsWithId(doctors, doctorId) # {}
  /\ appointments' = appointments \cup {[id |-> a, doctorId |-> doctorId]}
  /\ UNCHANGED <<doctors, now, nodeNow, timeZone, inflight, taken,
                 everBound, lastWrite>>

\* Time passes on the database's clock.
Tick ==
  /\ now < MaxTime
  /\ now' = now + 1
  /\ UNCHANGED <<doctors, appointments, nodeNow, timeZone, inflight, taken,
                 everBound, lastWrite>>

\* Time passes on the server process's clock.
NodeTick ==
  /\ nodeNow < MaxTime
  /\ nodeNow' = nodeNow + 1
  /\ UNCHANGED <<doctors, appointments, now, timeZone, inflight, taken,
                 everBound, lastWrite>>

\* Calls of the two actions by any session.
Next ==
  \/ \E slot \in Slots, call \in UpsertCalls :
       ReceiveUpsert(slot, call.session, call.input)
  \/ \E slot \in Slots : UpsertSession(slot)
  \/ \E slot \in Slots : UpsertWrite(slot, TRUE)
  \/ \E slot \in Slots, call \in DeleteCalls :
       ReceiveDelete(slot, call.session, call.input)
  \/ \E slot \in Slots : DeleteSession(slot)
  \/ \E slot \in Slots, storageUp \in BOOLEAN : DeleteFind(slot, storageUp)
  \/ \E slot \in Slots, storageUp \in BOOLEAN : DeleteWrite(slot, storageUp)
  \/ \E slot \in Slots : Revalidate(slot)
  \/ \E slot \in Slots : Respond(slot)

Spec == Init /\ [][Next]_vars

\* ------------------------------------------------------------------
\* The doctor form: users of both clinics open it, for a new doctor or for
\* one of theirs, and submit it; payloads with the times out of order are
\* also sent to the action directly.
\* ------------------------------------------------------------------

\* The sessions of a user of each clinic.
ClinicSessions == {[user |-> "u", clinic |-> c] : c \in Clinics}

ClinicSession == [user |-> "u", clinic |-> "c1"]

\* Payloads with the start after the end, with both equal, and in order;
\* the last one ends at "8h", text that is in order but no time of day.
OrderInputs ==
  {RawInput(NoId, NameAna, 15000, T2330, T0800, NoClinic),
   RawInput("d1", NameAna, 15000, T0800, T0800, NoClinic),
   RawInput("d1", NameAna, 15000, T0800, T2330, NoClinic),
   RawInput("d1", NameAna, 15000, T0800, <<56, 104>>, NoClinic)}

NextForm ==
  \/ \E slot \in Slots, session \in ClinicSessions :
       \E doctor \in FormDoctors(session) :
         \E values \in FormValues(doctor) :
           SubmitForm(slot, session, doctor, values)
  \/ \E slot \in Slots : ReceiveForm(slot)
  \/ \E slot \in Slots, raw \in OrderInputs :
       ReceiveUpsert(slot, ClinicSession, raw)
  \/ \E slot \in Slots : UpsertSession(slot)
  \/ \E slot \in Slots, storageUp \in BOOLEAN : UpsertWrite(slot, storageUp)
  \/ \E slot \in Slots : ReceiveDelete(slot, ClinicSession, "d1")
  \/ \E slot \in Slots : DeleteSession(slot)
  \/ \E slot \in Slots, storageUp \in BOOLEAN : DeleteFind(slot, storageUp)
  \/ \E slot \in Slots, storageUp \in BOOLEAN : DeleteWrite(slot, storageUp)
  \/ \E slot \in Slots : Revalidate(slot)
  \/ \E slot \in Slots : Respond(slot)

SpecForm == Init /\ [][NextForm]_vars

\* ------------------------------------------------------------------
\* The time pipeline on a wider range of times and zones: one clinic's users
\* add and edit doctors, through the action and through the form, and save
\* doctors as they are stored.
\* ------------------------------------------------------------------

\* Etc/GMT+12, Etc/GMT+3, UTC and Etc/GMT-14: UTC-12, UTC-3, UTC and
\* UTC+14.
WideZones ==
  {FixedZone(0 - 720), FixedZone(0 - 180), FixedZone(0), FixedZone(840)}

InitTimes ==
  /\ doctors \in SeedTables
  /\ appointments = {}
  /\ now = 0
  /\ nodeNow = 0
  /\ timeZone \in WideZones
  /\ inflight = NoneInFlight
  /\ taken = 0
  /\ everBound = Bindings(doctors)
  /\ lastWrite = NoLastWrite

\* The payloads sent to the action directly: for a doctor, pairs of the
\* times that are in order, and a pair of equal times; without an id, the
\* whole day.
WideInputs ==
  {RawInput("d1", NameAna, 15000, TimeString(0, 0, 0), TimeString(5, 0, 0),
            NoClinic),
   RawInput("d1", NameAna, 15000, TimeString(5, 0, 0),
            TimeString(12, 34, 56), NoClinic),
   RawInput("d1", NameAna, 15000, TimeString(12, 34, 56),
            TimeString(23, 59, 59), NoClinic),
   RawInput("d1", NameAna, 15000, TimeString(5, 0, 0), TimeString(5, 0, 0),
            NoClinic),
   RawInput(NoId, NameAna, 15000, TimeString(0, 0, 0),
            TimeString(23, 59, 59), NoClinic)}

NextTimes ==
  \/ \E slot \in Slots, raw \in WideInputs :
       ReceiveUpsert(slot, ClinicSession, raw)
  \/ \E slot \in Slots, doctor \in FormDoctors(ClinicSession) :
       SubmitForm(slot, ClinicSession, doctor, DefaultValues(doctor))
  \/ \E slot \in Slots, doctor \in doctors :
       ReceiveUpsert(slot, ClinicSession, StoredValues(doctor))
  \/ \E slot \in Slots : ReceiveForm(slot)
  \/ \E slot \in Slots : UpsertSession(slot)
  \/ \E slot \in Slots : UpsertWrite(slot, TRUE)
  \/ \E slot \in Slots : Revalidate(slot)
  \/ \E slot \in Slots : Respond(slot)

SpecTimes == InitTimes /\ [][NextTimes]_vars

\* ------------------------------------------------------------------
\* Requests for the same doctor running concurrently, while the
\* database's clock runs.
\* ------------------------------------------------------------------

\* Two payloads for the same doctor that differ in every field a user may
\* change.
ConcurrentInputs ==
  {RawInput("d1", NameAna, 15000, T0800, T2330, NoClinic),
   RawInput("d1", NameBia, 9900, TimeString(5, 0, 0), TimeString(12, 34, 56),
            NoClinic)}

NextConcurrent ==
  \/ \E slot \in Slots, session \in ClinicSessions, raw \in ConcurrentInputs :
       ReceiveUpsert(slot, session, raw)
  \/ \E slot \in Slots : UpsertSession(slot)
  \/ \E slot \in Slots, storageUp \in BOOLEAN : UpsertWrite(slot, storageUp)
  \/ \E slot \in Slots, session \in ClinicSessions :
       ReceiveDelete(slot, session, "d1")
  \/ \E slot \in Slots : DeleteSession(slot)
  \/ \E slot \in Slots, storageUp \in BOOLEAN : DeleteFind(slot, storageUp)
  \/ \E slot \in Slots, storageUp \in BOOLEAN : DeleteWrite(slot, storageUp)
  \/ \E slot \in Slots : Revalidate(slot)
  \/ \E slot \in Slots : Respond(slot)

SpecConcurrent == Init /\ [][NextConcurrent]_vars

\* ------------------------------------------------------------------
\* A clinic's user saves the same doctor again and again, and deletes it,
\* while the clocks of the database and of the server run.
\* ------------------------------------------------------------------

RepeatedInput == RawInput("d1", NameBia, 9900, T0800, T2330, NoClinic)

NextRepeat ==
  \/ \E slot \in Slots : ReceiveUpsert(slot, ClinicSession, RepeatedInput)
  \/ \E slot \in Slots : UpsertSession(slot)
  \/ \E slot \in Slots : UpsertWrite(slot, TRUE)
  \/ \E slot \in Slots : ReceiveDelete(slot, ClinicSession, "d1")
  \/ \E slot \in Slots : DeleteSession(slot)
  \/ \E slot \in Slots : DeleteFind(slot, TRUE)
  \/ \E slot \in Slots : DeleteWrite(slot, TRUE)
  \/ \E slot \in Slots : Revalidate(slot)
  \/ \E slot \in Slots : Respond(slot)
  \/ Tick
  \/ NodeTick

SpecRepeat == Init /\ [][NextRepeat]_vars

\* ------------------------------------------------------------------
\* Appointments are booked with the doctors while users of both clinics
\* save and delete them.
\* ------------------------------------------------------------------

NextCascade ==
  \/ \E slot \in Slots, session \in ClinicSessions :
       ReceiveUpsert(slot, session, RepeatedInput)
  \/ \E slot \in Slots :
       ReceiveUpsert(slot, ClinicSession,
                     RawInput(NoId, NameAna, 15000, T0800, T1800, NoClinic))
  \/ \E slot \in Slots : UpsertSession(slot)
  \/ \E slot \in Slots : UpsertWrite(slot, TRUE)
  \/ \E slot \in Slots, session \in ClinicSessions :
       ReceiveDelete(slot, session, "d1")
  \/ \E slot \in Slots : DeleteSession(slot)
  \/ \E slot \in Slots : DeleteFind(slot, TRUE)
  \/ \E slot \in Slots : DeleteWrite(slot, TRUE)
  \/ \E slot \in Slots : Revalidate(slot)
  \/ \E slot \in Slots : Respond(slot)
  \/ \E a \in AppointmentIds, id \in Uuids : CreateAppointment(a, id)

SpecCascade == Init /\ [][NextCascade]_vars

\* ------------------------------------------------------------------
\* The price field of the form: a clinic's user submits the form with each
\* of a range of prices.
\* ------------------------------------------------------------------

\* What the price field may hold: nothing (the field was cleared), the
\* default 0, prices below 1, 1, and prices with cents.
FormPrices ==
  {UndefinedPrice, Price(0, 0), Price(0, 50), Price(0, 99), Price(1, 0),
   Price(1, 15), Price(19, 99), Price(150, 0)}

FormPriceEntry(doctor, price) ==
  [FormEntry(doctor, T0800, T2330) EXCEPT !.appointmentPrice = price]

NextPrices ==
  \/ \E slot \in Slots, doctor \in FormDoctors(ClinicSession) :
       \E price \in FormPrices :
         SubmitForm(slot, ClinicSession, doctor, FormPriceEntry(doctor, price))
  \/ \E slot \in Slots : ReceiveForm(slot)
  \/ \E slot \in Slots : ReceiveDelete(slot, ClinicSession, "d1")
  \/ \E slot \in Slots : DeleteSession(slot)
  \/ \E slot \in Slots, storageUp \in BOOLEAN : DeleteFind(slot, storageUp)
  \/ \E slot \in Slots, storageUp \in BOOLEAN : DeleteWrite(slot, storageUp)
  \/ \E slot \in Slots : Revalidate(slot)
  \/ \E slot \in Slots : Respond(slot)

SpecPrices == Init /\ [][NextPrices]_vars
\* ------------------------------------------------------------------
\* The requests in the slots
\* ------------------------------------------------------------------

Done(p) == p.pc = "done"

\* The request reached upsertDoctorAction: a direct call, or a form
\* submission whose values passed the form's schema and were sent.
ReachedUpsert(p) == p.op \in {"upsert", "form"} /\ p.arrived

IdsOf(table) == {r.id : r \in table}

\* The request has changed neither table, issued no write statement and
\* sent no staleness signal.
NothingWritten(p) ==
  /\ ~p.changed
  /\ p.storageAtWrite = "none"
  /\ ~p.wrote
  /\ ~p.revalidated

\* A well-formed HH:MM:SS string read as seconds since midnight.
IsHHMMSS(t) ==
  /\ Len(t) = 8 /\ t[3] = 58 /\ t[6] = 58
  /\ \A k \in {1, 2, 4, 5, 7, 8} : t[k] \in 48..57

SecondsOf(t) ==
  ((t[1] - 48) * 10 + (t[2] - 48)) * 3600
  + ((t[4] - 48) * 10 + (t[5] - 48)) * 60
  + ((t[7] - 48) * 10 + (t[8] - 48))

\* upsertDoctorAction was called with a payload its schema accepts and
\* whose times are HH:MM:SS, by a user with a clinic, its statement was
\* put to a database that could be reached, and the handler has ended.
AuthorizedUpsert(p) ==
  /\ ReachedUpsert(p) /\ Done(p)
  /\ UpsertDoctorSchemaIssues(p.input) = {}
  /\ IsHHMMSS(p.input.availableFromTime) /\ IsHHMMSS(p.input.availableToTime)
  /\ HasUser(p.session) /\ p.session.clinic # NoClinic
  /\ p.storageAtWrite = "up"

\* ------------------------------------------------------------------
\* Claims
\* ------------------------------------------------------------------

\* C1 (as stated): an upsertDoctor request carrying the id of a Doctor row
\* of another clinic than the caller's is denied with a Forbidden or
\* NotFound error and leaves that row unchanged.
C1_ForeignUpsertDenied ==
  \A slot \in Slots :
    AuthorizedUpsert(inflight[slot]) =>
      \A r \in inflight[slot].met :
        r.clinicId # inflight[slot].session.clinic
          => /\ inflight[slot].result \in {"Forbidden", "NotFound"}
             /\ r \in inflight[slot].stored

\* The row findFirst gave the request.
FoundRows(p) == IF p.doctor.found THEN {p.doctor.row} ELSE {}

\* A deleteDoctor request whose target row belongs to another clinic than
\* the caller's session: the row its lookup found, or the row with its id
\* that its delete statement met.
ForeignDelete(p) ==
  /\ p.op = "delete"
  /\ \E r \in FoundRows(p) \cup p.met : r.clinicId # p.session.clinic

\* C2 (as stated): a deleteDoctor request whose target row belongs to
\* another clinic than the caller's session fails with Forbidden, issues
\* no delete statement, changes neither the Doctor rows nor the
\* Appointments and emits no staleness signal.
C2_ForeignDeleteDenied ==
  \A slot \in Slots :
    ForeignDelete(inflight[slot]) =>
      /\ NothingWritten(inflight[slot])
      /\ Done(inflight[slot])
      /\ inflight[slot].result = "Forbidden"

\* C3: in upsertDoctor the session is checked first and the clinic second:
\* once the action body runs, a request without a session fails as
\* Unauthenticated and one whose user has no clinic as NoClinicAssociation;
\* a request of either kind never ends otherwise than in one of these or in
\* a validation failure, writes nothing and emits no staleness signal.
C3_GateOrder ==
  \A slot \in Slots :
    ReachedUpsert(inflight[slot]) =>
      /\ ~HasUser(inflight[slot].session) =>
           /\ NothingWritten(inflight[slot])
           /\ Done(inflight[slot]) =>
                /\ inflight[slot].result
                     \in {"Unauthenticated", "ValidationFailed"}
                /\ inflight[slot].lookedUp
                     => inflight[slot].result = "Unauthenticated"
      /\ (HasUser(inflight[slot].session)
            /\ inflight[slot].session.clinic = NoClinic) =>
           /\ NothingWritten(inflight[slot])
           /\ Done(inflight[slot]) =>
                /\ inflight[slot].result
                     \in {"NoClinicAssociation", "ValidationFailed"}
                /\ inflight[slot].lookedUp
                     => inflight[slot].result = "NoClinicAssociation"

\* C3 happens: a valid payload sent by a user without a clinic was refused
\* as NoClinicAssociation after the session lookup, and one sent without a
\* session as Unauthenticated.
C3_Witness ==
  \E slot \in Slots :
    /\ inflight[slot].op = "upsert" /\ Done(inflight[slot])
    /\ inflight[slot].result = "NoClinicAssociation"
    /\ HasUser(inflight[slot].session) /\ inflight[slot].lookedUp
    /\ inflight[Peer(slot)].op = "upsert" /\ Done(inflight[Peer(slot)])
    /\ inflight[Peer(slot)].result = "Unauthenticated"

\* A deleteDoctor request of a signed-in user without a clinic.
DeleteWithoutClinic(p) ==
  /\ p.op = "delete"
  /\ HasUser(p.session) /\ p.session.clinic = NoClinic

\* C4 (as stated): a deleteDoctor request of a user without a clinic fails
\* with NoClinicAssociation for every target id, before the doctor is
\* looked up.
C4_DeleteNoClinicAssociation ==
  \A slot \in Slots :
    (DeleteWithoutClinic(inflight[slot]) /\ Done(inflight[slot]))
      => /\ inflight[slot].result = "NoClinicAssociation"
         /\ inflight[slot].storageAtFind = "none"

\* C5 (as stated): an upsertDoctor request carrying an id that matches no
\* Doctor row fails with NotFound and creates no row.
C5_AbsentIdNotFound ==
  \A slot \in Slots :
    (/\ AuthorizedUpsert(inflight[slot])
     /\ inflight[slot].input.id # NoId
     /\ inflight[slot].met = {})
      => /\ inflight[slot].result = "NotFound"
         /\ inflight[slot].stored = {}

\* The rows the request's statement added.
InsertedRows(p) == {r \in p.stored : r.id \notin IdsOf(p.met)}

\* C6: an upsertDoctor request without an id inserts a row
\* under a generated id, and every row it inserts carries the clinic id of
\* the caller's session, whatever the payload holds (a clinicId key in the
\* payload included).
C6_InsertedRowInCallerClinic ==
  \A slot \in Slots :
    /\ ReachedUpsert(inflight[slot]) =>
         \A r \in InsertedRows(inflight[slot]) :
           r.clinicId = inflight[slot].session.clinic
    /\ (AuthorizedUpsert(inflight[slot]) /\ inflight[slot].input.id = NoId)
         => /\ inflight[slot].result = "Success"
            /\ InsertedRows(inflight[slot]) # {}

\* C6 happens: a user of one clinic sent a payload without an id that
\* names another clinic in a clinicId key, and the row inserted under the
\* generated id belongs to the user's clinic.
C6_Witness ==
  \E slot \in Slots :
    /\ AuthorizedUpsert(inflight[slot])
    /\ inflight[slot].result = "Success"
    /\ Defined(inflight[slot].input, "clinicId")
    /\ inflight[slot].input.clinicId # inflight[slot].session.clinic
    /\ \E r \in InsertedRows(inflight[slot]) :
         /\ r.id \in GeneratedIds
         /\ r \in doctors
         /\ r.clinicId = inflight[slot].session.clinic

\* C7 (as stated): a Doctor id bound to a clinic is never bound to another
\* one: among all the <<id, clinic>> pairs ever stored an id has one
\* clinic, and no statement changes the clinicId of a row.
C7_IdNeverRebound ==
  /\ \A p \in everBound : \A q \in everBound : p[1] = q[1] => p[2] = q[2]
  /\ \A slot \in Slots :
       \A r \in inflight[slot].stored : \A q \in inflight[slot].met :
         r.id = q.id => r.clinicId = q.clinicId

\* The time order the claims speak of, written on the values themselves.
FromNotBeforeTo(v) == ~StrLess(v.availableFromTime, v.availableToTime)

\* The request was rejected by validation before any other step.
RejectedFirst(p) ==
  /\ Done(p)
  /\ p.result = "ValidationFailed"
  /\ ~p.lookedUp
  /\ NothingWritten(p)

\* The cross-field issue on availableToTime.
TimeOrderIssue == Issue("availableToTime", "custom")

\* C8 (as stated): a candidate record whose availableFromTime is not
\* strictly before its availableToTime (equal times included) is rejected
\* with the cross-field issue on availableToTime, before any session
\* lookup, write or staleness signal; of the form and of the action.
C8_TimeOrderRejectedFirst ==
  \A slot \in Slots :
    /\ (inflight[slot].op = "form"
          /\ FromNotBeforeTo(inflight[slot].form.values)) =>
         /\ RejectedFirst(inflight[slot])
         /\ TimeOrderIssue \in inflight[slot].issues
    /\ (inflight[slot].op = "upsert"
          /\ FromNotBeforeTo(inflight[slot].input)) =>
         /\ RejectedFirst(inflight[slot])
         /\ TimeOrderIssue \in inflight[slot].issues

\* C8 (amended): such a record is always rejected before any session
\* lookup, write or staleness signal; the cross-field issue on
\* availableToTime is among the issues whenever no field of the record
\* fails on its type, and is left out when one does.
C8_TimeOrderRejectedTyped ==
  \A slot \in Slots :
    /\ (inflight[slot].op = "form"
          /\ FromNotBeforeTo(inflight[slot].form.values)) =>
         /\ RejectedFirst(inflight[slot])
         /\ TimeOrderIssue \in inflight[slot].issues
              <=> ~Aborted(inflight[slot].issues)
         /\ Aborted(inflight[slot].issues)
              <=> ~inflight[slot].form.values.appointmentPrice.defined
    /\ (inflight[slot].op = "upsert"
          /\ FromNotBeforeTo(inflight[slot].input)) =>
         /\ RejectedFirst(inflight[slot])
         /\ TimeOrderIssue \in inflight[slot].issues
              <=> ~Aborted(inflight[slot].issues)

\* C8 happens: a form was submitted with equal, non-empty start and end
\* and was rejected on availableToTime alone, and a payload with the start
\* after the end was sent to the action and rejected the same way.
C8_Witness ==
  \E slot \in Slots :
    /\ inflight[slot].op = "form" /\ Done(inflight[slot])
    /\ inflight[slot].form.values.availableFromTime
         = inflight[slot].form.values.availableToTime
    /\ inflight[slot].form.values.availableFromTime # <<>>
    /\ inflight[slot].issues = {TimeOrderIssue}
    /\ inflight[Peer(slot)].op = "upsert" /\ Done(inflight[Peer(slot)])
    /\ StrLess(inflight[Peer(slot)].input.availableToTime,
               inflight[Peer(slot)].input.availableFromTime)
    /\ inflight[Peer(slot)].issues = {TimeOrderIssue}

\* t shifted by minus the offset (in minutes), modulo 24 hours, in seconds.
ShiftedSeconds(t, offset) == (SecondsOf(t) - offset * 60) % SecondsPerDay

\* The process's offset from UTC when the request's times were computed.
OffsetOf(p) == timeZone.offset

\* C9: the times upsertDoctor persists are the payload's
\* HH:MM:SS times shifted by minus the process's UTC offset modulo 24
\* hours, rendered as HH:MM:SS; the weekday fields are stored as sent, also
\* when the shift crosses midnight.
C9_TimesShiftedByOffset ==
  \A slot \in Slots :
    AuthorizedUpsert(inflight[slot])
      => /\ inflight[slot].stored # {}
         /\ \A r \in inflight[slot].stored :
              /\ IsHHMMSS(r.availableFromTime) /\ IsHHMMSS(r.availableToTime)
              /\ SecondsOf(r.availableFromTime)
                   = ShiftedSeconds(inflight[slot].input.availableFromTime,
                                    OffsetOf(inflight[slot]))
              /\ SecondsOf(r.availableToTime)
                   = ShiftedSeconds(inflight[slot].input.availableToTime,
                                    OffsetOf(inflight[slot]))
              /\ r.availableFromWeekday
                   = inflight[slot].input.availableFromWeekday.val
              /\ r.availableToWeekday
                   = inflight[slot].input.availableToWeekday.val

\* C9 happens: in a zone away from UTC a start time was carried across
\* midnight by the shift, the row was stored with it, and the weekdays are
\* those of the payload.
C9_Witness ==
  \E slot \in Slots :
    /\ AuthorizedUpsert(inflight[slot])
    /\ inflight[slot].result = "Success"
    /\ OffsetOf(inflight[slot]) # 0
    /\ (SecondsOf(inflight[slot].input.availableFromTime)
          - OffsetOf(inflight[slot]) * 60) \notin 0..(SecondsPerDay - 1)
    /\ \E r \in inflight[slot].stored :
         /\ r \in doctors
         /\ r.availableFromTime # inflight[slot].input.availableFromTime
         /\ r.availableFromWeekday
              = inflight[slot].input.availableFromWeekday.val

\* The request in slot is the second of two successive upsertDoctor calls
\* with the same id and the same field values by the same authorized
\* session: the first had ended when the second came in, and the second
\* met the row as the first had left it.
SecondOfTwo(slot) ==
  /\ AuthorizedUpsert(inflight[slot])
  /\ AuthorizedUpsert(inflight[Peer(slot)])
  /\ inflight[slot].session = inflight[Peer(slot)].session
  /\ inflight[slot].input = inflight[Peer(slot)].input
  /\ inflight[slot].input.id # NoId
  /\ inflight[slot].peerAtStart = "done"
  /\ inflight[slot].met = inflight[Peer(slot)].stored

\* The row with its two timestamps as instants, whichever clock gave them.
Instants(r) ==
  [r EXCEPT !.createdAt = r.createdAt.at, !.updatedAt = r.updatedAt.at]

\* C10 (as stated): two successive upsertDoctor calls with the same id and
\* field values by the same session leave exactly one row with that id,
\* in the state the first call left it in.
C10_SecondCallChangesNothing ==
  \A slot \in Slots :
    SecondOfTwo(slot)
      => /\ Cardinality(inflight[slot].stored) = 1
         /\ {Instants(r) : r \in inflight[slot].stored}
              = {Instants(q) : q \in inflight[Peer(slot)].stored}

\* The rows agree in every column but updatedAt.
SameButUpdatedAt(r, q) == [r EXCEPT !.updatedAt = q.updatedAt] = q

\* C10 (amended): two successive upsertDoctor calls with the same id and
\* field values by the same session leave exactly one row with that id,
\* and the second call leaves every column of the row as the first left
\* it, except updatedAt, which every update sets to the process's time
\* at which its statement was built.
C10_SecondCallKeepsDoctor ==
  \A slot \in Slots :
    SecondOfTwo(slot)
      => /\ Cardinality(inflight[slot].stored) = 1
         /\ Cardinality(RowsWithId(doctors, inflight[slot].input.id)) = 1
         /\ \A r \in inflight[slot].stored :
              /\ r \in doctors
              /\ \A q \in inflight[Peer(slot)].stored : SameButUpdatedAt(r, q)
              /\ r.updatedAt
                   = [clock |-> "node", at |-> inflight[slot].clock]

\* C10 happens: the first call inserted the doctor, the second, sent
\* later, updated it, both succeeded, and the two rows differ in updatedAt
\* alone.
C10_Witness ==
  \E slot \in Slots :
    /\ SecondOfTwo(slot)
    /\ inflight[slot].result = "Success"
    /\ inflight[Peer(slot)].result = "Success"
    /\ inflight[Peer(slot)].met = {}
    /\ inflight[slot].stored # inflight[Peer(slot)].stored
    /\ \A r \in inflight[slot].stored :
         \A q \in inflight[Peer(slot)].stored :
           SameButUpdatedAt(r, q) /\ r.updatedAt.at > q.updatedAt.at

\* The request in slot has ended with the given result.
Ended(slot, op, result) ==
  /\ inflight[slot].op = op
  /\ inflight[slot].pc = "done"
  /\ inflight[slot].result = result

\* C11: a request of upsertDoctor or deleteDoctor whose statement fails
\* ends with PersistenceError, the step that fails leaves the doctor rows
\* (and the appointments) as they were, and the request never sends the
\* staleness signal: the signal follows a committed write only.
C11_FailedWriteNoSignal ==
  [][\A slot \in Slots :
       /\ inflight'[slot].result = "PersistenceError"
            => /\ ~inflight'[slot].revalidated
               /\ ~inflight'[slot].wrote
               /\ inflight[slot].result # "PersistenceError"
                    => /\ doctors' = doctors
                       /\ appointments' = appointments
       /\ inflight'[slot].revalidated => inflight'[slot].wrote]_vars

\* C11 happens: with a doctor stored, an upsert and a delete have both
\* ended with PersistenceError, each at its write statement.
C11_Witness ==
  /\ doctors # {}
  /\ \E slot \in Slots :
       /\ Ended(slot, "upsert", "PersistenceError")
       /\ inflight[slot].storageAtWrite = "down"
       /\ Ended(Peer(slot), "delete", "PersistenceError")
       /\ inflight[Peer(slot)].storageAtWrite = "down"

\* C12: the statement of a successful deleteDoctor removes the doctor row
\* together with every appointment whose doctorId references it and no
\* other, and in every reachable state each appointment references a
\* stored doctor.
C12_NoDanglingAppointment ==
  /\ \A a \in appointments : RowsWithId(doctors, a.doctorId) # {}
  /\ \A slot \in Slots :
       /\ (inflight[slot].op = "delete" /\ inflight[slot].wrote)
            => /\ inflight[slot].stored = {}
               /\ \A a \in inflight[slot].cascaded :
                    a.doctorId = inflight[slot].input.id
       /\ Ended(slot, "delete", "Success") => inflight[slot].wrote

\* C12 happens: a doctor with an appointment was deleted, the appointment
\* with it, while another doctor and an appointment of theirs stay stored.
C12_Witness ==
  \E slot \in Slots :
    /\ Ended(slot, "delete", "Success")
    /\ inflight[slot].met # {}
    /\ inflight[slot].cascaded # {}
    /\ RowsWithId(doctors, inflight[slot].input.id) = {}
    /\ \E a \in appointments : a.doctorId # inflight[slot].input.id

\* The row carries, in every field an upsert sets, what the request p asks
\* for: its parsed input, with its times normalized.
CarriesFieldsOf(r, p) ==
  /\ r.name = UpsertDoctorSchemaData(p.input).name
  /\ r.specialty = UpsertDoctorSchemaData(p.input).specialty
  /\ r.appointmentPriceInCents
       = UpsertDoctorSchemaData(p.input).appointmentPriceInCents.whole
  /\ r.availableFromWeekday
       = UpsertDoctorSchemaData(p.input).availableFromWeekday
  /\ r.availableToWeekday = UpsertDoctorSchemaData(p.input).availableToWeekday
  /\ r.availableFromTime = p.fromTime
  /\ r.availableToTime = p.toTime

\* Both slots hold upserts for the same doctor id whose statements have
\* reached the database, the one in slot last.
BothUpsertedLast(slot) ==
  /\ inflight[slot].op = "upsert" /\ inflight[slot].storageAtWrite = "up"
  /\ inflight[Peer(slot)].op = "upsert"
  /\ inflight[Peer(slot)].storageAtWrite = "up"
  /\ inflight[slot].input.id = inflight[Peer(slot)].input.id
  /\ lastWrite[inflight[slot].input.id] = slot

\* C13: when two upsertDoctor requests for the same doctor id
\* have both issued their statement, in whatever order their steps
\* interleaved, the table holds exactly one row with that id, and every
\* field an upsert sets is the one of the request whose statement came
\* last.
C13_LastWriteWins ==
  \A slot \in Slots :
    BothUpsertedLast(slot)
      => /\ Cardinality(RowsWithId(doctors, inflight[slot].input.id)) = 1
         /\ \A r \in RowsWithId(doctors, inflight[slot].input.id) :
              CarriesFieldsOf(r, inflight[slot])

\* C13 happens: two upserts of the same doctor with different fields ran
\* side by side, both succeeded, and the row is the one the later
\* statement asked for, in no field the earlier one's.
C13_Witness ==
  \E slot \in Slots :
    /\ BothUpsertedLast(slot)
    /\ Ended(slot, "upsert", "Success")
    /\ Ended(Peer(slot), "upsert", "Success")
    /\ inflight[slot].peerAtStart \in {"session", "write"}
    /\ inflight[slot].met # {}
    /\ \A r \in RowsWithId(doctors, inflight[slot].input.id) :
         /\ CarriesFieldsOf(r, inflight[slot])
         /\ r.name # UpsertDoctorSchemaData(inflight[Peer(slot)].input).name
         /\ r.availableFromTime # inflight[Peer(slot)].fromTime
         /\ r.availableToTime # inflight[Peer(slot)].toTime
         /\ r.appointmentPriceInCents
              # UpsertDoctorSchemaData(inflight[Peer(slot)].input)
                  .appointmentPriceInCents.whole

\* C14 (as stated): every stored doctor row has availableFromTime strictly
\* before availableToTime on the stored values, whatever upsertDoctor
\* requests were accepted and whatever the zone of the process.
C14_StoredTimesOrdered ==
  \A r \in doctors : StrLess(r.availableFromTime, r.availableToTime)

\* The stored time t read on the clock of the process's zone, in seconds.
LocalSeconds(t, offset) == (SecondsOf(t) + offset * 60) % SecondsPerDay

\* The day, counted from the day of the request, into which the shift to
\* UTC carries the local time t.
DayOfShift(t, offset) == (SecondsOf(t) - offset * 60) \div SecondsPerDay

\* C14 (amended): every row written by an accepted upsertDoctor request
\* has availableFromTime strictly before availableToTime on the local
\* times, that is on the stored values shifted back by the process's
\* offset; the stored values themselves are in that order exactly when the
\* shift to UTC carries both times into the same day.
C14_StoredTimesOrderedLocally ==
  \A slot \in Slots :
    AuthorizedUpsert(inflight[slot]) =>
      \A r \in inflight[slot].stored :
        /\ IsHHMMSS(r.availableFromTime) /\ IsHHMMSS(r.availableToTime)
        /\ LocalSeconds(r.availableFromTime, OffsetOf(inflight[slot]))
             < LocalSeconds(r.availableToTime, OffsetOf(inflight[slot]))
        /\ StrLess(r.availableFromTime, r.availableToTime)
             <=> DayOfShift(inflight[slot].input.availableFromTime,
                            OffsetOf(inflight[slot]))
                   = DayOfShift(inflight[slot].input.availableToTime,
                                OffsetOf(inflight[slot]))

\* C14 happens: an accepted request was stored with an end that the shift
\* carried across midnight, before its start.
C14_Witness ==
  \E slot \in Slots :
    /\ AuthorizedUpsert(inflight[slot])
    /\ inflight[slot].result = "Success"
    /\ \E r \in inflight[slot].stored :
         /\ r \in doctors
         /\ StrLess(r.availableToTime, r.availableFromTime)

\* The price a submitted form held.
SubmittedPrice(p) == p.form.values.appointmentPrice

\* The form's request was sent to the action.
Sent(p) == p.op = "form" /\ (p.pc = "wire" \/ p.arrived)

\* C15 (as stated): the form rejects every appointmentPrice below 1, its
\* default 0 included, with an issue on appointmentPrice and without
\* calling the action; it accepts appointmentPrice 1; and an accepted price
\* p is submitted as appointmentPriceInCents = p * 100, a whole number of
\* cents that is at least 100.
C15_PriceBoundary ==
  \A slot \in Slots :
    /\ (inflight[slot].op = "form"
          /\ SubmittedPrice(inflight[slot]).defined) =>
         /\ PriceLess(SubmittedPrice(inflight[slot]), Price(1, 0))
              => /\ RejectedFirst(inflight[slot])
                 /\ ~Sent(inflight[slot])
                 /\ Issue("appointmentPrice", "too_small")
                      \in inflight[slot].issues
         /\ ~PriceLess(SubmittedPrice(inflight[slot]), Price(1, 0))
              => Sent(inflight[slot])
    /\ Sent(inflight[slot]) =>
         inflight[slot].input.appointmentPriceInCents
           = JsInteger(SubmittedPrice(inflight[slot]).units * 100
                         + SubmittedPrice(inflight[slot]).hundredths)

\* The delete in slot had passed its ownership check when the delete of the
\* same doctor in the other slot was applied, and has then issued its own
\* statement to an available storage.
DeletedAfterPeerDelete(slot) ==
  /\ inflight[slot].op = "delete" /\ inflight[Peer(slot)].op = "delete"
  /\ inflight[slot].input.id = inflight[Peer(slot)].input.id
  /\ inflight[Peer(slot)].wrote
  /\ inflight[Peer(slot)].peerAtWrite = "delete"
  /\ inflight[slot].storageAtWrite = "up"

\* The delete in slot, of a signed-in user, came in when no row had its
\* id, and has ended.
DeletedWhenGone(slot) ==
  /\ inflight[slot].op = "delete" /\ inflight[slot].pc = "done"
  /\ HasUser(inflight[slot].session)
  /\ IsUuid(inflight[slot].input.id)
  /\ inflight[slot].atStart = {}

\* C16 (as stated): a deleteDoctor that passed its ownership check and
\* whose row was removed by another request before its delete statement
\* ran completes successfully, the statement deleting nothing: no error,
\* the staleness signal is sent, and the row stays absent. A deleteDoctor
\* that starts when the row is gone fails with NotFound once its lookup
\* has answered (with PersistenceError when it has not), without a delete
\* statement and without a signal.
C16_DeleteRace ==
  \A slot \in Slots :
    /\ DeletedAfterPeerDelete(slot)
         => /\ inflight[slot].doctor.found
            /\ inflight[slot].wrote
            /\ inflight[slot].met = {}
            /\ ~inflight[slot].changed
            /\ inflight[slot].pc \in {"revalidate", "done"}
            /\ inflight[slot].pc = "done"
                 => /\ inflight[slot].result = "Success"
                    /\ inflight[slot].revalidated
            /\ RowsWithId(doctors, inflight[slot].input.id) = {}
    /\ DeletedWhenGone(slot)
         => /\ inflight[slot].result \in {"NotFound", "PersistenceError"}
            /\ ~inflight[slot].doctor.found
            /\ ~inflight[slot].wrote
            /\ ~inflight[slot].revalidated
            /\ inflight[slot].storageAtWrite = "none"

\* The upsert in slot carries the id of a doctor that the delete in the
\* other slot found and removed while the upsert was running, and the
\* upsert's statement reached the database after the delete's.
UpsertedAfterPeerDelete(slot) ==
  /\ inflight[slot].op = "upsert" /\ inflight[Peer(slot)].op = "delete"
  /\ inflight[slot].atStart # {}
  /\ inflight[slot].input.id = inflight[Peer(slot)].input.id
  /\ inflight[Peer(slot)].doctor.found
  /\ inflight[Peer(slot)].wrote
  /\ inflight[Peer(slot)].peerAtWrite \in {"session", "write"}
  /\ inflight[slot].storageAtWrite = "up"

\* C17 (as stated): when an upsertDoctor carrying the id of an existing
\* doctor and a deleteDoctor of that doctor run concurrently and the
\* delete's statement is applied before the upsert's write, no row with
\* that id is stored afterwards.
C17_NoResurrection ==
  \A slot \in Slots :
    UpsertedAfterPeerDelete(slot)
      => /\ inflight[slot].stored = {}
         /\ RowsWithId(doctors, inflight[slot].input.id) = {}

\* The form was opened for a stored doctor and submitted as it was.
SubmittedUnchanged(p) ==
  /\ p.op = "form"
  /\ p.form.doctor # NoDoctor
  /\ p.form.values = DefaultValues(p.form.doctor)

\* The action was called with the values of a stored doctor, the doctor
\* was stored as it was when the request reached its statement, and the
\* database could be reached.
SavedUnchanged(p) ==
  /\ ReachedUpsert(p) /\ Done(p)
  /\ p.storageAtWrite = "up"
  /\ \E r \in p.met : p.met = {r} /\ p.input = StoredValues(r)

\* C18 (as stated): a stored doctor loaded into the form and saved without
\* a change passes the form's validation and is sent, and a save of the
\* stored values that reaches the database succeeds and leaves the stored
\* availableFromTime and availableToTime what they were, whatever the
\* zone.
C18_UnchangedSaveKeepsTimes ==
  \A slot \in Slots :
    /\ SubmittedUnchanged(inflight[slot]) => Sent(inflight[slot])
    /\ SavedUnchanged(inflight[slot])
         => /\ inflight[slot].result = "Success"
            /\ \A r \in inflight[slot].stored : \A q \in inflight[slot].met :
                 /\ r.availableFromTime = q.availableFromTime
                 /\ r.availableToTime = q.availableToTime
====
